---- MODULE Spec2Model ----
(***************************************************************************)
(* A model of datetime-js: the DateTime value type (construction from      *)
(* calendar fields, from a timestamp, from the clock and from an ISO8601   *)
(* string, and the with-derivations) and the DateTimeFormatter placeholder *)
(* engine with its process-wide registry of component formatters.          *)
(*                                                                         *)
(* JavaScript numbers that hold a time value are modelled as a record      *)
(* [nan, day, tod]: the time value is day * 86400000 + tod milliseconds    *)
(* with tod in 0..86399999 (ECMAScript's Day(t) and TimeWithinDay(t)), or  *)
(* NaN.  No product of the two is ever formed, so that every number of the *)
(* model stays inside the range of the model checker's integers while the  *)
(* whole range of a JavaScript Date (+-8.64e15 ms) is covered.             *)
(* JavaScript strings are TLA+ strings.  Record constructors list their     *)
(* fields in one fixed order throughout the module.                        *)
(***************************************************************************)
EXTENDS Integers, Sequences, FiniteSets, TLC

VARIABLES
    pc,          \* "input": a call is pending; "idle" / "done": none is
    op,          \* name of the operation called last, or pending ("" if none)
    args,        \* its arguments (a record; unused arguments keep defaults)
    this,        \* the DateTime at hand: the receiver of the next call
    prev,        \* the receiver of the last call, as it is after the call
    saved,       \* the receiver of the last call, as it was before the call
    ret,         \* what the last call gave: an instance or a thrown message
    out,         \* string returned by the last toISOString / format
    formatters,  \* DateTimeFormatter.formatters: specifier -> function id
    before,      \* DateTimeFormatter.formatters as it was before the last call
    installs,    \* number of times createInternalFormatters has run
    formatter,   \* the DateTimeFormatter instance at hand
    steps,       \* number of derivations and other calls made on instances so far
    objects      \* which DateTime objects there are: the number made so far, and
                 \* which of them is at hand, was the receiver, was returned

vars ==
    <<pc, op, args, this, prev, saved, ret, out, formatters, before, installs,
      formatter, steps, objects>>

---------------------------------------------------------------------------
(* JavaScript numbers holding time values, and the Date built-in           *)

msPerDay == 86400000

\* Largest day number of a Date: 8.64e15 ms = 100000000 days.
maxDateDay == 100000000

NaNTime == [nan |-> TRUE, day |-> 0, tod |-> 0]

Time(d, t) == [nan |-> FALSE, day |-> d, tod |-> t]

\* tv + ms, for a number of milliseconds ms of magnitude below 2^31 - msPerDay.
AddMs(tv, ms) ==
    IF tv.nan THEN NaNTime
    ELSE Time(tv.day + ((tv.tod + ms) \div msPerDay), (tv.tod + ms) % msPerDay)

\* ECMAScript TimeClip: NaN when |t| > 8.64e15.
TimeClip(tv) ==
    IF tv.nan THEN NaNTime
    ELSE IF tv.day < -maxDateDay \/ tv.day > maxDateDay
            \/ (tv.day = maxDateDay /\ tv.tod > 0)
         THEN NaNTime
         ELSE tv

\* ECMAScript DayFromYear.
DayFromYear(y) ==
    365 * (y - 1970) + ((y - 1969) \div 4) - ((y - 1901) \div 100)
        + ((y - 1601) \div 400)

\* ECMAScript DaysInYear = 366.
InLeapYear(y) == (y % 4 = 0) /\ ((y % 100 # 0) \/ (y % 400 = 0))

\* Days of the year before month m (0 = January), ECMAScript MonthFromTime table.
DaysBeforeMonth(m, leap) ==
    LET base == <<0, 31, 59, 90, 120, 151, 181, 212, 243, 273, 304, 334, 365>>
    IN  base[m + 1] + (IF leap /\ m >= 2 THEN 1 ELSE 0)

\* ECMAScript MakeDay(year, month, date), month 0-based, for integer arguments.
MakeDay(year, month, date) ==
    LET ym == year + (month \div 12)
        mn == month % 12
    IN  DayFromYear(ym) + DaysBeforeMonth(mn, InLeapYear(ym)) + date - 1

\* ECMAScript MakeTime(hour, min, sec, ms).
MakeTime(hour, min, sec, ms) == hour * 3600000 + min * 60000 + sec * 1000 + ms

\* ECMAScript MakeDate(day, time) = day * msPerDay + time.
MakeDate(day, time) == Time(day + (time \div msPerDay), time % msPerDay)

\* ECMAScript YearFromTime: the year y with DayFromYear(y) <= day < DayFromYear(y+1).
YearFromDay(day) ==
    LET est == 1970 + (day \div 146097) * 400 + (((day % 146097) * 400) \div 146097)
    IN  CHOOSE y \in (est - 2)..(est + 2) :
            DayFromYear(y) <= day /\ day < DayFromYear(y + 1)

\* ECMAScript MonthFromTime (0 = January).
MonthFromDay(day) ==
    LET y == YearFromDay(day)
        inYear == day - DayFromYear(y)
    IN  CHOOSE m \in 0..11 :
            /\ DaysBeforeMonth(m, InLeapYear(y)) <= inYear
            /\ inYear < DaysBeforeMonth(m + 1, InLeapYear(y))

\* ECMAScript DateFromTime (1-based day of the month).
DateFromDay(day) ==
    LET y == YearFromDay(day)
    IN  day - DayFromYear(y) - DaysBeforeMonth(MonthFromDay(day), InLeapYear(y)) + 1

\* ECMAScript WeekDay (0 = Sunday).
WeekDay(day) == (day + 4) % 7

---------------------------------------------------------------------------
(* TimeZone (collaborator): a value holding an offset in minutes           *)

utcOffset == 0

---------------------------------------------------------------------------
(* DateTime                                                                *)

\* NaN as the value of a calendar field: the getters of an Invalid Date return
\* NaN.  It stands below every integer, so that the first comparison of each
\* validator (0 <= x, 1 <= x) is false of it as it is of NaN.
NaNField == -2000000000

\* The private constructor: the instance built from a timestamp and a timezone
\* offset.  The fields are read off the Date at timestamp + offset; a Date out
\* of range is an Invalid Date, whose getters all return NaN (nan = TRUE).
NewDateTime(timestamp, offset) ==
    LET date == TimeClip(AddMs(timestamp, offset * 60 * 1000))
    IN  IF date.nan
        THEN [nan |-> TRUE, day |-> NaNField, ms |-> NaNField, year |-> NaNField,
              month |-> NaNField, hour |-> NaNField,
              timestamp |-> timestamp, offset |-> offset, m_formatter |-> FALSE,
              weekday |-> NaNField, minute |-> NaNField, second |-> NaNField]
        ELSE [nan         |-> FALSE,
              day         |-> DateFromDay(date.day),
              ms          |-> date.tod % 1000,
              year        |-> YearFromDay(date.day),
              month       |-> MonthFromDay(date.day) + 1,
              hour        |-> date.tod \div 3600000,
              timestamp   |-> timestamp,
              offset      |-> offset,
              m_formatter |-> FALSE,
              weekday     |-> WeekDay(date.day),
              minute      |-> (date.tod \div 60000) % 60,
              second      |-> (date.tod \div 1000) % 60]

isValidYear(year) == 0 <= year

isValidMonth(month) == 1 <= month /\ 12 >= month

\* isValidDay with the leap year taken as every fourth year.
isValidDay_everyFourthYear(day, month, year) ==
    LET max == CASE month = 2 -> IF 0 = year % 4 THEN 29 ELSE 28
                 [] month \in {9, 4, 6, 11} -> 30
                 [] OTHER -> 31
    IN  1 <= day /\ max >= day

isValidDay(day, month, year) ==
    LET max == CASE month = 2 ->
                      IF 0 = year % 4 /\ (0 # year % 100 \/ 0 = year % 400)
                      THEN 29 ELSE 28
                 [] month \in {9, 4, 6, 11} -> 30
                 [] OTHER -> 31
    IN  1 <= day /\ max >= day

isValidHour(hour) == 0 <= hour /\ 23 >= hour

isValidMinute(minute) == 0 <= minute /\ 59 >= minute

isValidSecond(second) == 0 <= second /\ 59 >= second

isValidMs(ms) == 0 <= ms /\ 999 >= ms


\* What a factory or derivation gives back: the instance, or the message of the
\* DateTimeError it threw.
NoDateTime ==
    [nan |-> TRUE, day |-> 0, ms |-> 0, year |-> 0, month |-> 0, hour |-> 0,
     timestamp |-> NaNTime, offset |-> 0, m_formatter |-> FALSE, weekday |-> 0,
     minute |-> 0, second |-> 0]

Returned(dt) == [dt |-> dt, ok |-> TRUE, err |-> ""]

Thrown(message) == [dt |-> NoDateTime, ok |-> FALSE, err |-> message]

\* No call has been made yet.
NoResult == [dt |-> NoDateTime, ok |-> FALSE, err |-> ""]

\* A call that gives back no DateTime returned.
Completed == [dt |-> NoDateTime, ok |-> TRUE, err |-> ""]

\* `${value}` of an integer or of NaN.
NumStr(n) == IF n = NaNField THEN "NaN" ELSE ToString(n)

\* DateTime objects are told apart by the order they were made in: 1, 2, ...;
\* 0 is no object.
NoObjects == [this |-> 0, made |-> 0, receiver |-> 0, returned |-> 0]

\* The objects after a static factory ran: `new DateTime` makes an object that
\* was not there before, and it is the one returned; nothing is made when the
\* factory throws.
Made(objs, ok) ==
    IF ok
    THEN [this |-> objs.made + 1, made |-> objs.made + 1, receiver |-> 0,
          returned |-> objs.made + 1]
    ELSE [objs EXCEPT !.receiver = 0, !.returned = 0]

\* A derivation that hands back its receiver instead of a new object.
Derived_returnsReceiver(objs, ok) ==
    IF ok
    THEN [objs EXCEPT !.receiver = objs.this, !.returned = objs.this]
    ELSE [objs EXCEPT !.receiver = objs.this, !.returned = 0]

\* The objects after a with-derivation ran on the object at hand: what it
\* returns comes from `new DateTime`, directly or through fromDateTime, and is
\* at hand next.
Derived(objs, ok) ==
    IF ok
    THEN [this |-> objs.made + 1, made |-> objs.made + 1, receiver |-> objs.this,
          returned |-> objs.made + 1]
    ELSE [objs EXCEPT !.receiver = objs.this, !.returned = 0]

\* The default of the parameter timeZone: TimeZone.utc when no argument is given.
DefaultTimeZone(a) == IF "timeZone" \in a.omitted THEN utcOffset ELSE a.offset

\* fromTimestamp refusing the timestamps whose fields cannot be read.
fromTimestamp_validated(timestamp, offset) ==
    IF NewDateTime(timestamp, offset).nan
    THEN Thrown("Expected valid timestamp.")
    ELSE Returned(NewDateTime(timestamp, offset))

fromTimestamp(timestamp, offset) == Returned(NewDateTime(timestamp, offset))

\* fromDateTime with the hour checked before the day.
fromDateTime_hourBeforeDay(year, month, day, hour, minute, second, ms, offset, now) ==
    IF ~isValidYear(year)
    THEN Thrown("Expected valid year, found " \o NumStr(year) \o ".")
    ELSE IF ~isValidMonth(month)
    THEN Thrown("Expected valid month, found " \o NumStr(month) \o ".")
    ELSE IF ~isValidHour(hour)
    THEN Thrown("Expected valid hour, found " \o NumStr(hour) \o ".")
    ELSE IF ~isValidDay(day, month, year)
    THEN Thrown("Expected valid day, found " \o NumStr(day) \o ".")
    ELSE IF ~isValidMinute(minute)
    THEN Thrown("Expected valid minute, found " \o NumStr(minute) \o ".")
    ELSE IF ~isValidSecond(second)
    THEN Thrown("Expected valid second, found " \o NumStr(second) \o ".")
    ELSE IF ~isValidMs(ms)
    THEN Thrown("Expected valid ms, found " \o NumStr(ms) \o ".")
    ELSE Returned(NewDateTime(
            AddMs(MakeDate(MakeDay(year, month - 1, day),
                           MakeTime(hour, minute, second, ms)),
                  -(offset * 60 * 1000)), offset))

\* now is the reading of the clock taken by `new Date()`.
\* setUTCFullYear keeps the time within the day of that reading and clips the
\* result; setUTCHours leaves an Invalid Date as it is.
fromDateTime(year, month, day, hour, minute, second, ms, offset, now) ==
    IF ~isValidYear(year)
    THEN Thrown("Expected valid year, found " \o NumStr(year) \o ".")
    ELSE IF ~isValidMonth(month)
    THEN Thrown("Expected valid month, found " \o NumStr(month) \o ".")
    ELSE IF ~isValidDay(day, month, year)
    THEN Thrown("Expected valid day, found " \o NumStr(day) \o ".")
    ELSE IF ~isValidHour(hour)
    THEN Thrown("Expected valid hour, found " \o NumStr(hour) \o ".")
    ELSE IF ~isValidMinute(minute)
    THEN Thrown("Expected valid minute, found " \o NumStr(minute) \o ".")
    ELSE IF ~isValidSecond(second)
    THEN Thrown("Expected valid second, found " \o NumStr(second) \o ".")
    ELSE IF ~isValidMs(ms)
    THEN Thrown("Expected valid ms, found " \o NumStr(ms) \o ".")
    ELSE
        LET date1 == TimeClip(MakeDate(MakeDay(year, month - 1, day), now.tod))
            date2 == IF date1.nan THEN NaNTime
                     ELSE TimeClip(MakeDate(date1.day,
                                            MakeTime(hour, minute, second, ms)))
        IN  Returned(NewDateTime(AddMs(date2, -(offset * 60 * 1000)), offset))

DateTimeNow(offset, now) == Returned(NewDateTime(now, offset))

---------------------------------------------------------------------------
(* DateTime.parse                                                          *)

Ch(s, i) == SubSeq(s, i, i)

From(s, i) == SubSeq(s, i, Len(s))

Digits == {"0", "1", "2", "3", "4", "5", "6", "7", "8", "9"}

\* \d{n} at position i of s.
DigitsAt(s, i, n) ==
    /\ i + n - 1 <= Len(s)
    /\ \A k \in i..(i + n - 1) : Ch(s, k) \in Digits

DigitValue(c) ==
    CASE c = "0" -> 0 [] c = "1" -> 1 [] c = "2" -> 2 [] c = "3" -> 3
      [] c = "4" -> 4 [] c = "5" -> 5 [] c = "6" -> 6 [] c = "7" -> 7
      [] c = "8" -> 8 [] c = "9" -> 9

\* Number.parseInt of a string of decimal digits.
RECURSIVE parseInt(_)
parseInt(s) ==
    IF Len(s) = 0 THEN 0
    ELSE 10 * parseInt(SubSeq(s, 1, Len(s) - 1)) + DigitValue(Ch(s, Len(s)))

\* ([+-]?\d{2}:?\d{2})$ matched against the whole of o.
OffsetMatches(o) ==
    \E sign \in 0..1, colon \in 0..1 :
        /\ Len(o) = sign + 2 + colon + 2
        /\ sign = 1 => Ch(o, 1) \in {"+", "-"}
        /\ DigitsAt(o, sign + 1, 2)
        /\ colon = 1 => Ch(o, sign + 3) = ":"
        /\ DigitsAt(o, sign + colon + 3, 2)

\* ^(\d{4})-(\d{2})-(\d{2})T(\d{2}):(\d{2}):(\d{2}) matched at the start of s.
DateTimePrefixMatches(s) ==
    /\ Len(s) >= 19
    /\ DigitsAt(s, 1, 4)  /\ Ch(s, 5) = "-"
    /\ DigitsAt(s, 6, 2)  /\ Ch(s, 8) = "-"
    /\ DigitsAt(s, 9, 2)  /\ Ch(s, 11) = "T"
    /\ DigitsAt(s, 12, 2) /\ Ch(s, 14) = ":"
    /\ DigitsAt(s, 15, 2) /\ Ch(s, 17) = ":"
    /\ DigitsAt(s, 18, 2)

\* The fraction with the dot left unescaped, (?:.(\d{3}))?, so that any
\* character may stand before the three digits.
FractionMatched_unescapedDot(s) ==
    /\ Len(s) >= 23
    /\ DigitsAt(s, 21, 3)
    /\ OffsetMatches(From(s, 24))

\* (?:\.(\d{3}))? took part in the match.
FractionMatched(s) ==
    /\ Len(s) >= 23
    /\ Ch(s, 20) = "."
    /\ DigitsAt(s, 21, 3)
    /\ OffsetMatches(From(s, 24))

\* The regular expression of parse, as a whole.
Iso8601Matches(s) ==
    /\ DateTimePrefixMatches(s)
    /\ FractionMatched(s) \/ OffsetMatches(From(s, 20))

\* new TimeZone(offsetString) for a string the regular expression let through:
\* sign, hours and minutes give the offset in minutes.
TimeZoneFromString(o) ==
    LET signed == Ch(o, 1) \in {"+", "-"}
        body   == IF signed THEN From(o, 2) ELSE o
        hh     == parseInt(SubSeq(body, 1, 2))
        mm     == parseInt(SubSeq(body, Len(body) - 1, Len(body)))
    IN  (IF Ch(o, 1) = "-" THEN -1 ELSE 1) * (hh * 60 + mm)

parse(dateTime, now) ==
    IF ~Iso8601Matches(dateTime)
    THEN Thrown("Expected valid ISO8601 date-time, found \"" \o dateTime \o "\".")
    ELSE
        LET frac == FractionMatched(dateTime)
        IN  fromDateTime(
                parseInt(SubSeq(dateTime, 1, 4)),
                parseInt(SubSeq(dateTime, 6, 7)),
                parseInt(SubSeq(dateTime, 9, 10)),
                parseInt(SubSeq(dateTime, 12, 13)),
                parseInt(SubSeq(dateTime, 15, 16)),
                parseInt(SubSeq(dateTime, 18, 19)),
                IF frac THEN parseInt(SubSeq(dateTime, 21, 23)) ELSE 0,
                TimeZoneFromString(From(dateTime, IF frac THEN 24 ELSE 20)),
                now)

---------------------------------------------------------------------------
(* DateTimeFormatter                                                       *)

\* An optional string argument: <<>> is undefined, <<s>> is the string s.
Undefined == <<>>

\* A JavaScript number that may be NaN, as parseInt returns it.
NaNNumber == [nan |-> TRUE, val |-> 0]

Number(n) == [nan |-> FALSE, val |-> n]

\* Length of the longest prefix of s (from position i) made of decimal digits.
RECURSIVE DigitRun(_, _)
DigitRun(s, i) ==
    IF i <= Len(s) /\ Ch(s, i) \in Digits THEN 1 + DigitRun(s, i + 1) ELSE 0

\* Number.parseInt of any string without leading white space: an optional sign
\* and the leading decimal digits; NaN when there is none.
jsParseInt(s) ==
    LET signed == Len(s) >= 1 /\ Ch(s, 1) \in {"+", "-"}
        start  == IF signed THEN 2 ELSE 1
        n      == DigitRun(s, start)
    IN  IF n = 0 THEN NaNNumber
        ELSE Number((IF signed /\ Ch(s, 1) = "-" THEN -1 ELSE 1)
                        * parseInt(SubSeq(s, start, start + n - 1)))

\* The % of JavaScript: the result has the sign of the dividend.
jsRem(a, b) == IF a >= 0 THEN a % b ELSE -((-a) % b)

\* `${value}` of a number that may be NaN.
jsNumStr(x) == IF x.nan THEN "NaN" ELSE NumStr(x.val)

RECURSIVE Repeat(_, _)
Repeat(ch, n) == IF n <= 0 THEN "" ELSE ch \o Repeat(ch, n - 1)

\* pad that never prepends a character.
pad_loopNeverEntered(value, length, ch) == jsNumStr(value)

\* DateTimeFormatter.pad: value and length are numbers that may be NaN; with a
\* NaN length the loop condition 0 < length is false at once.
pad(value, length, ch) ==
    LET str == jsNumStr(value)
    IN  IF length.nan THEN str
        ELSE Repeat(Ch(ch, 1), length.val - Len(str)) \o str

\* A field of a DateTime as a number: NaN for an Invalid Date.
Field(dt, v) == IF dt.nan THEN NaNNumber ELSE Number(v)

FieldRem(dt, v, b) == IF dt.nan THEN NaNNumber ELSE Number(jsRem(v, b))

\* args ?? dflt, then Number.parseInt.
ArgDigits(fargs, dflt) == jsParseInt(IF fargs = Undefined THEN dflt ELSE fargs[1])

\* Math.abs leaving its argument as it is.
abs_signKept(n) == n

abs(n) == IF n < 0 THEN -n ELSE n

BuiltinSpecifiers ==
    {"{", "Y", "y", "year", "M", "month", "D", "day", "h", "hour", "m", "minute",
     "s", "second", "ms", "Z", "z", "weekday"}

ShortWeekdays == <<"Sun", "Mon", "Tue", "Wed", "Thu", "Fri", "Sat">>

LongWeekdays ==
    <<"Sunday", "Monday", "Tuesday", "Wednesday", "Thursday", "Friday", "Saturday">>

\* The year formatter as the class documentation has it: digits is a minimum.
yearFormatter_minimumWidth(dt, fargs) ==
    pad(Field(dt, dt.year), ArgDigits(fargs, "4"), "0")

\* formatters["year"]
yearFormatter(dt, fargs) ==
    LET digits == ArgDigits(fargs, "4")
        year   == pad(Field(dt, dt.year), digits, "0")
    IN  IF ~digits.nan /\ digits.val < Len(year)
        THEN SubSeq(year, Len(year) - digits.val + 1, Len(year))
        ELSE year

\* The component formatters that createInternalFormatters installs, by specifier.
InternalFormatter(specifier, dt, fargs) ==
    CASE specifier = "{" -> "{"
      [] specifier = "Y" -> pad(FieldRem(dt, dt.year, 10000), Number(4), "0")
      [] specifier = "y" -> pad(FieldRem(dt, dt.year, 100), Number(2), "0")
      [] specifier = "year" -> yearFormatter(dt, fargs)
      [] specifier = "M" -> pad(Field(dt, dt.month), Number(2), "0")
      [] specifier = "month" -> pad(Field(dt, dt.month), ArgDigits(fargs, "1"), "0")
      [] specifier = "D" -> pad(Field(dt, dt.day), Number(2), "0")
      [] specifier = "day" -> pad(Field(dt, dt.day), ArgDigits(fargs, "1"), "0")
      [] specifier = "h" -> pad(Field(dt, dt.hour), Number(2), "0")
      [] specifier = "hour" -> pad(Field(dt, dt.hour), ArgDigits(fargs, "1"), "0")
      [] specifier = "m" -> pad(Field(dt, dt.minute), Number(2), "0")
      [] specifier = "minute" -> pad(Field(dt, dt.minute), ArgDigits(fargs, "1"), "0")
      [] specifier = "s" -> pad(Field(dt, dt.second), Number(2), "0")
      [] specifier = "second" -> pad(Field(dt, dt.second), ArgDigits(fargs, "1"), "0")
      [] specifier = "ms" -> pad(Field(dt, dt.second), ArgDigits(fargs, "1"), "0")
      [] specifier = "Z" ->
            (IF 0 > dt.offset THEN "-" ELSE "+")
                \o pad(Number(abs(dt.offset) \div 60), Number(2), "0") \o ":"
                \o pad(Number(abs(dt.offset) % 60), Number(2), "0")
      [] specifier = "z" ->
            (IF 0 > dt.offset THEN "-" ELSE "+")
                \o pad(Number(abs(dt.offset) \div 60), Number(2), "0")
                \o pad(Number(abs(dt.offset) % 60), Number(2), "0")
      [] specifier = "weekday" ->
            IF dt.nan THEN "undefined"
            ELSE IF fargs = <<"short">> THEN ShortWeekdays[dt.weekday + 1]
            ELSE LongWeekdays[dt.weekday + 1]

\* Properties every object literal inherits from Object.prototype: a lookup
\* formatters[specifier] finds them although they are no keys of the object.
InheritedProperties ==
    {"constructor", "toString", "toLocaleString", "valueOf", "hasOwnProperty",
     "isPrototypeOf", "propertyIsEnumerable"}

\* Component formatters callers register (opaque functions, told apart by name).
CallerFormatters == {"quarter", "brace"}

CallerFormatter(fn, dt, fargs) ==
    CASE fn = "quarter" -> "Q" \o jsNumStr(Field(dt, ((dt.month - 1) \div 3) + 1))
      [] fn = "brace" -> "{Y}"

\* The registry maps a specifier to the identity of a function:
\* <<"internal", specifier>>, <<"caller", name>>; a lookup may also give
\* <<"inherited", property>>, and <<"undefined", "">> when there is nothing.
EmptyRegistry == [n \in {} |-> <<"undefined", "">>]

\* The object literal of createInternalFormatters.
InternalRegistry == [n \in BuiltinSpecifiers |-> <<"internal", n>>]

\* DateTimeFormatter.formatters[specifier]
Lookup(registry, specifier) ==
    IF specifier \in DOMAIN registry THEN registry[specifier]
    ELSE IF specifier \in InheritedProperties THEN <<"inherited", specifier>>
    ELSE <<"undefined", "">>

\* The string a looked-up function contributes to the output of format.
CallFormatter(registry, f, dt, fargs) ==
    CASE f[1] = "internal" -> InternalFormatter(f[2], dt, fargs)
      [] f[1] = "caller" -> CallerFormatter(f[2], dt, fargs)
      [] f[1] = "inherited" ->
            IF f[2] \in {"hasOwnProperty", "isPrototypeOf", "propertyIsEnumerable"}
            THEN "false" ELSE "[object Object]"

\* The ISO 8601 format string without the fraction.
formatStringIso8601_withoutMs == "{Y}-{M}-{D}T{h}:{m}:{s}{Z}"

formatStringIso8601 == "{Y}-{M}-{D}T{h}:{m}:{s}.{ms}{Z}"

\* The character of s at position i; "" outside s.
At(s, i) == IF 1 <= i /\ i <= Len(s) THEN Ch(s, i) ELSE ""

\* The most characters [^}]+ can take from position i of s on (greedy).
RECURSIVE NoBraceRun(_, _)
NoBraceRun(s, i) ==
    IF i <= Len(s) /\ Ch(s, i) # "}" THEN 1 + NoBraceRun(s, i + 1) ELSE 0

NoMatch ==
    [args |-> Undefined, formatter |-> "", length |-> 0, found |-> FALSE, index |-> 0]

\* PlaceholderMatcher, \{([^}]+)(?::([^}]+))?}, tried at position i of s with
\* the first group taking k characters and the second, if it takes part, a
\* characters (the most it can: with fewer, the character after it is not the
\* closing brace).  The optional group is tried before the match without it;
\* when both fail the first group gives back one character.
RECURSIVE MatchWithGroups(_, _, _, _)
MatchWithGroups(s, i, k, a) ==
    IF k < 1 THEN NoMatch
    ELSE IF At(s, i + k + 1) = ":" /\ a >= 1 /\ At(s, i + k + 2 + a) = "}"
    THEN [args |-> <<SubSeq(s, i + k + 2, i + k + 1 + a)>>,
          formatter |-> SubSeq(s, i + 1, i + k),
          length |-> k + a + 3, found |-> TRUE, index |-> i]
    ELSE IF At(s, i + k + 1) = "}"
    THEN [args |-> Undefined, formatter |-> SubSeq(s, i + 1, i + k), length |-> k + 2,
          found |-> TRUE, index |-> i]
    ELSE MatchWithGroups(s, i, k - 1, NoBraceRun(s, i + k + 1))

RECURSIVE MatchFrom(_, _)
FirstOf(m, s, i) == IF m.found THEN m ELSE MatchFrom(s, i + 1)

\* The leftmost match at or after position i.
MatchFrom(s, i) ==
    IF i > Len(s) THEN NoMatch
    ELSE IF Ch(s, i) # "{" THEN MatchFrom(s, i + 1)
    ELSE FirstOf(MatchWithGroups(s, i, NoBraceRun(s, i + 1),
                                 NoBraceRun(s, i + NoBraceRun(s, i + 1) + 2)),
                 s, i)

\* PlaceholderMatcher.exec(s); found = FALSE is the null result.
PlaceholderMatcher(s) == MatchFrom(s, 1)

\* What format gives back: the string, or the message of the
\* DateTimeFormatterError it threw.
Formatted(str) == [ok |-> TRUE, err |-> "", str |-> str]

FormatThrown(message) == [ok |-> FALSE, err |-> message, str |-> ""]

RECURSIVE formatLoop(_, _, _, _)

\* A turn that scans what the component formatter returned for the internal
\* placeholders before appending it.
formatTurn_rescansOutput(registry, format, str, dt, result) ==
    IF ~result.found THEN Formatted(str \o format)
    ELSE IF Lookup(registry, result.formatter) = <<"undefined", "">>
    THEN FormatThrown("Undefined component formatter '" \o result.formatter \o "'.")
    ELSE formatLoop(
            registry,
            From(format, result.index + result.length),
            str \o SubSeq(format, 1, result.index - 1)
                \o formatLoop(InternalRegistry,
                              CallFormatter(registry,
                                            Lookup(registry, result.formatter),
                                            dt, result.args),
                              "", dt).str,
            dt)

\* One turn of the loop of format, result being what exec gave.
formatTurn(registry, format, str, dt, result) ==
    IF ~result.found THEN Formatted(str \o format)
    ELSE IF Lookup(registry, result.formatter) = <<"undefined", "">>
    THEN FormatThrown("Undefined component formatter '" \o result.formatter \o "'.")
    ELSE formatLoop(
            registry,
            From(format, result.index + result.length),
            str \o SubSeq(format, 1, result.index - 1)
                \o CallFormatter(registry, Lookup(registry, result.formatter),
                                 dt, result.args),
            dt)

\* The loop of format: format is what is left of the format string, str the
\* output so far.
formatLoop(registry, format, str, dt) ==
    formatTurn(registry, format, str, dt, PlaceholderMatcher(format))

\* DateTimeFormatter.prototype.format
format(registry, formatString, dt) == formatLoop(registry, formatString, "", dt)

\* A constructor that installs the internal formatters every time.
RegistryAfterConstruction_alwaysInstalls(registry) == InternalRegistry

\* The registry after the constructor of DateTimeFormatter has run.
RegistryAfterConstruction(registry) ==
    IF 0 = Cardinality(DOMAIN registry) THEN InternalRegistry ELSE registry

\* The registry after addFormatter(specifier, fn), when it does not throw.
RegistryWith(registry, specifier, fn) ==
    [n \in DOMAIN registry \cup {specifier} |->
        IF n = specifier THEN <<"caller", fn>> ELSE registry[n]]

\* addFormatter refusing the built-in specifiers only.
addFormatterThrows_builtinsOnly(registry, specifier) ==
    specifier \in BuiltinSpecifiers

addFormatterThrows(registry, specifier) ==
    Lookup(registry, specifier) # <<"undefined", "">>

---------------------------------------------------------------------------
(* Inputs                                                                  *)

\* Days of the month tried range over -1..MaxDayInput.
MaxDayInput == 32

\* Readings of the system clock (`new Date()`, Date.now()).
Clock == {Time(20393, 0), Time(20393, 71107250)}

NoArgs ==
    [day |-> 0, ms |-> 0, year |-> 0, month |-> 0, hour |-> 0,
     timestamp |-> NaNTime, offset |-> 0, minute |-> 0, second |-> 0,
     omitted |-> {}, now |-> NaNTime, specifier |-> "", fn |-> "", text |-> ""]

Fields(y, mo, d, h, mi, s, ms, off, now) ==
    [NoArgs EXCEPT !.year = y, !.month = mo, !.day = d, !.hour = h, !.minute = mi,
                   !.second = s, !.ms = ms, !.offset = off, !.now = now]

\* Every year of interest with every month and day, at midnight UTC.
CalendarYears ==
    {0, 1, 4, 99, 100, 400, 1600, 1900, 1970, 1971, 1972, 2000, 2024, 9999,
     10000, 275759, 275760, 275761}

CalendarGrid ==
    {Fields(y, mo, d, 0, 0, 0, 0, utcOffset, now) :
        y \in CalendarYears, mo \in 1..12, d \in (-1)..MaxDayInput, now \in Clock}

\* Every combination of a too small, a valid and a too large value per field.
ValidityGrid ==
    {Fields(y, mo, d, h, mi, s, ms, utcOffset, Time(20393, 0)) :
        y \in {-1, 1970, 2000}, mo \in {0, 2, 13}, d \in {0, 29, 32},
        h \in {-1, 12, 24}, mi \in {-1, 30, 60}, s \in {-1, 45, 60},
        ms \in {-1, 500, 1000}}

\* Valid times of day under several timezone offsets.
Offsets == {0, -300, 330, 840, -720}

TimeGrid ==
    {Fields(y, mo, d, h, mi, s, ms, off, now) :
        y \in {0, 1970, 2000, 275760}, mo \in {1, 9}, d \in {1, 12, 13},
        h \in {0, 23}, mi \in {0, 59}, s \in {0, 59}, ms \in {0, 999},
        off \in Offsets, now \in Clock}

FieldInputs == CalendarGrid \cup ValidityGrid \cup TimeGrid

Timestamps ==
    {Time(0, 0), Time(0, 18000000), Time(-1, 86399999), Time(20393, 71107250),
     Time(11016, 0), Time(-719528, 0), Time(-719529, 86399999),
     Time(2932896, 86399999), Time(2932897, 0),
     Time(maxDateDay, 0), Time(maxDateDay, 1), Time(-maxDateDay, 0),
     Time(-maxDateDay - 1, 86399999)}

TimestampInputs ==
    {[NoArgs EXCEPT !.timestamp = t, !.offset = off] :
        t \in Timestamps, off \in Offsets}

ParseTexts ==
    {"1970-01-01T00:00:00+00:00", "1970-01-01T00:00:00-05:00",
     "1970-01-01T00:00:00+0530", "1970-01-01T00:00:000000",
     "1970-01-01T00:00:0000:00", "2024-02-29T23:59:59.999+00:00",
     "2023-02-29T23:59:59.999+00:00", "1972-02-29T12:30:45.123-0500",
     "0000-01-01T00:00:00+00:00", "9999-12-31T23:59:59.999+14:00",
     "197-01-01T00:00:00+00:00", "197O-01-01T00:00:00+00:00",
     "1970-1-01T00:00:00+00:00", "1970-O1-01T00:00:00+00:00",
     "1970-13-01T00:00:00+00:00", "1970-00-01T00:00:00+00:00",
     "1970-01-1T00:00:00+00:00", "1970-01-O1T00:00:00+00:00",
     "1970-01-32T00:00:00+00:00", "1970-04-31T00:00:00+00:00",
     "1970-01-01T0:00:00+00:00", "1970-01-01TO0:00:00+00:00",
     "1970-01-01T25:00:00+00:00", "1970-01-01T00:0:00+00:00",
     "1970-01-01T00:O0:00+00:00", "1970-01-01T00:60:00+00:00",
     "1970-01-01T00:00:0+00:00", "1970-01-01T00:00:O0+00:00",
     "1970-01-01T00:00:60+00:00", "1970-01-01T00:00:00+0:00",
     "1970-01-01T00:00:00+O0:00", "1970-01-01T00:00:00",
     "1970-01-01T00:00:00Z", "1970-01-01T00:00:00.0+00:00",
     "1970-01-01T00:00:00.00+00:00", "1970-01-01T00:00:00.0000+00:00",
     "1970-01-01T00:00:00.000", "1970-01-01T00:00:00.1234",
     "1970-01-01 00:00:00+00:00", "1970/01/01T00:00:00+00:00",
     "1970-01-01T00:00:00+00:00 ", " 1970-01-01T00:00:00+00:00",
     "1970-01-01T00:00:00+00:000", "1970-01-01T00:00:00+00::00",
     "1970-01-01T00:00:00*00:00", "1970-01-01T00:00:00,000+00:00",
     "1970-13-1T00:00:00+00:00", "1970-01-32T25:00:00", "1970-13-32T25:60:60+00:00",
     "1970-01-01T24:00:60.999+00:00", "1970-01-01T00:00:00.999-00:00", ""}

ParseInputs == {[NoArgs EXCEPT !.text = t, !.now = Time(20393, 0)] : t \in ParseTexts}

---------------------------------------------------------------------------
(* Single calls: the inputs are drawn, then the function is applied        *)

NoFormatter == [some |-> FALSE, m_format |-> ""]

PureInit ==
    /\ pc = "input"
    /\ \/ op = "fromDateTime" /\ args \in FieldInputs
       \/ op = "parse" /\ args \in ParseInputs
       \/ op = "fromTimestamp" /\ args \in TimestampInputs
    /\ this = NoDateTime /\ prev = NoDateTime /\ saved = NoDateTime
    /\ ret = NoResult
    /\ out = ""
    /\ formatters = EmptyRegistry
    /\ before = EmptyRegistry
    /\ installs = 0
    /\ formatter = NoFormatter
    /\ steps = 0
    /\ objects = NoObjects

Finish(result) ==
    /\ pc' = "done"
    /\ ret' = result
    /\ this' = IF result.ok THEN result.dt ELSE this
    /\ objects' = Made(objects, result.ok)
    /\ UNCHANGED <<op, args, prev, saved, out, formatters, before, installs, formatter,
                   steps>>

CallFromDateTime ==
    /\ pc = "input" /\ op = "fromDateTime"
    /\ Finish(fromDateTime(args.year, args.month, args.day, args.hour, args.minute,
                           args.second, args.ms, args.offset, args.now))

CallParse ==
    /\ pc = "input" /\ op = "parse"
    /\ Finish(parse(args.text, args.now))

CallFromTimestamp ==
    /\ pc = "input" /\ op = "fromTimestamp"
    /\ Finish(fromTimestamp(args.timestamp, args.offset))

\* What toISOString does to the registry, and what it gives: the getter
\* `formatter` constructs a DateTimeFormatter when the instance has none.
toISOString(registry, dt) ==
    LET reg == IF dt.m_formatter THEN registry ELSE RegistryAfterConstruction(registry)
    IN  [registry |-> reg,
         result |-> format(reg, formatStringIso8601, dt),
         installed |-> IF reg = registry THEN 0 ELSE 1]

\* dt.toISOString() on the instance a successful fromDateTime returned.
CallToISOString ==
    /\ pc = "done" /\ op = "fromDateTime" /\ ret.ok
    /\ LET r == toISOString(formatters, this)
       IN  /\ formatters' = r.registry
           /\ before' = formatters
           /\ installs' = installs + r.installed
           /\ out' = r.result.str
           /\ ret' = [dt |-> NoDateTime, ok |-> r.result.ok, err |-> r.result.err]
           /\ this' = [this EXCEPT !.m_formatter = TRUE]
    /\ op' = "toISOString"
    /\ UNCHANGED <<pc, args, prev, saved, formatter, steps, objects>>

\* DateTime.parse of the string toISOString returned.
CallParseBack ==
    /\ pc = "done" /\ op = "toISOString" /\ ret.ok
    /\ ret' = parse(out, args.now)
    /\ objects' = [Made(objects, parse(out, args.now).ok) EXCEPT !.this = objects.this]
    /\ op' = "parseBack"
    /\ UNCHANGED <<pc, args, this, prev, saved, out, formatters, before, installs,
                   formatter, steps>>

PureNext ==
    \/ CallFromDateTime
    \/ CallParse
    \/ CallFromTimestamp
    \/ CallToISOString
    \/ CallParseBack

SpecPure == PureInit /\ [][PureNext]_vars

---------------------------------------------------------------------------
(* A session: an instance is made by a factory, then derived from          *)

\* Calls made on instances in one session.
MaxDerivations == 2

SessionFields ==
    {Fields(y, mo, d, t[1], t[2], t[3], t[4], off, now) :
        y \in {-1, 1972, 2023}, mo \in {1, 2, 13}, d \in {29, 31},
        t \in {<<0, 0, 0, 0>>, <<23, 59, 59, 999>>}, off \in {0, -300},
        now \in {Time(20393, 71107250)}}

SessionTimestamps ==
    {[NoArgs EXCEPT !.timestamp = t, !.offset = off] :
        t \in {Time(0, 0), Time(-719529, 86399999), Time(maxDateDay, 1),
               Time(20393, 71107250)},
        off \in {0, 330}}
    \cup {[NoArgs EXCEPT !.timestamp = t, !.omitted = {"timeZone"}] :
            t \in {Time(0, 18000000), Time(-maxDateDay - 1, 86399999)}}

SessionClock ==
    {[NoArgs EXCEPT !.now = now, !.offset = off] : now \in Clock, off \in {0, 60}}
    \cup {[NoArgs EXCEPT !.now = now, !.omitted = {"timeZone"}] : now \in Clock}

SessionTexts ==
    {[NoArgs EXCEPT !.text = t, !.now = Time(20393, 0)] :
        t \in {"2024-02-29T23:59:59.999+00:00", "1970-01-01T00:00:00-0500",
               "1970-01-32T00:00:00+00:00", "1970-01-01T00:00:00"}}

SessionInit ==
    /\ pc = "idle"
    /\ op = ""
    /\ args = NoArgs
    /\ this = NoDateTime /\ prev = NoDateTime /\ saved = NoDateTime
    /\ ret = NoResult
    /\ out = ""
    /\ formatters = EmptyRegistry
    /\ before = EmptyRegistry
    /\ installs = 0
    /\ formatter = NoFormatter
    /\ steps = 0
    /\ objects = NoObjects

\* A static factory was called with the arguments a and gave result.
Factory(name, a, result) ==
    /\ pc = "idle"
    /\ op' = name
    /\ args' = a
    /\ ret' = result
    /\ pc' = IF result.ok THEN "have" ELSE "idle"
    /\ this' = IF result.ok THEN result.dt ELSE this
    /\ objects' = Made(objects, result.ok)
    /\ UNCHANGED <<prev, saved, out, formatters, before, installs, formatter, steps>>

FromDateTime ==
    \E a \in SessionFields :
        Factory("fromDateTime", a,
                fromDateTime(a.year, a.month, a.day, a.hour, a.minute, a.second,
                             a.ms, a.offset, a.now))

FromTimestamp ==
    \E a \in SessionTimestamps :
        Factory("fromTimestamp", a, fromTimestamp(a.timestamp, DefaultTimeZone(a)))

Now ==
    \E a \in SessionClock : Factory("now", a, DateTimeNow(DefaultTimeZone(a), a.now))

Parse == \E a \in SessionTexts : Factory("parse", a, parse(a.text, a.now))

\* A method of the instance at hand was called with the arguments a and gave
\* result.  No method assigns to a field of its receiver, so the receiver after
\* the call is the receiver before it; the instance returned is at hand next.
Derivation(name, a, result) ==
    /\ pc = "have"
    /\ steps < MaxDerivations
    /\ steps' = steps + 1
    /\ op' = name
    /\ args' = a
    /\ ret' = result
    /\ saved' = this
    /\ prev' = this
    /\ this' = IF result.ok THEN result.dt ELSE this
    /\ objects' = Derived(objects, result.ok)
    /\ UNCHANGED <<pc, out, formatters, before, installs, formatter>>

\* The call every calendar derivation makes, a holding the fields it passes.
fromFields(a, d, now) ==
    fromDateTime(a.year, a.month, a.day, a.hour, a.minute, a.second, a.ms,
                 d.offset, now)

\* The fields of the receiver, as the derivations read them off its getters.
FieldsOf(d, now) ==
    Fields(d.year, d.month, d.day, d.hour, d.minute, d.second, d.ms, d.offset, now)

DerivationClock == {Time(20393, 71107250)}

WithYear ==
    \E year \in {-1, 1971, 1972, 275761}, now \in DerivationClock :
        LET a == [FieldsOf(this, now) EXCEPT !.year = year]
        IN  Derivation("withYear", a, fromFields(a, this, now))

WithMonth ==
    \E month \in {0, 2, 4, 12}, now \in DerivationClock :
        LET a == [FieldsOf(this, now) EXCEPT !.month = month]
        IN  Derivation("withMonth", a, fromFields(a, this, now))

WithDay ==
    \E day \in {0, 1, 29, 31}, now \in DerivationClock :
        LET a == [FieldsOf(this, now) EXCEPT !.day = day]
        IN  Derivation("withDay", a, fromFields(a, this, now))

WithDate ==
    \E date \in {<<1972, 2, 29>>, <<1971, 2, 29>>, <<2024, 4, 31>>},
       now \in DerivationClock :
        LET a == [FieldsOf(this, now) EXCEPT !.year = date[1], !.month = date[2],
                                             !.day = date[3]]
        IN  Derivation("withDate", a, fromFields(a, this, now))

WithHour ==
    \E hour \in {-1, 12, 24}, now \in DerivationClock :
        LET a == [FieldsOf(this, now) EXCEPT !.hour = hour]
        IN  Derivation("withHour", a, fromFields(a, this, now))

WithMinute ==
    \E minute \in {30, 60}, now \in DerivationClock :
        LET a == [FieldsOf(this, now) EXCEPT !.minute = minute]
        IN  Derivation("withMinute", a, fromFields(a, this, now))

WithSecond ==
    \E second \in {30, 60}, now \in DerivationClock :
        LET a == [FieldsOf(this, now) EXCEPT !.second = second]
        IN  Derivation("withSecond", a, fromFields(a, this, now))

WithMs ==
    \E ms \in {500, 1000}, now \in DerivationClock :
        LET a == [FieldsOf(this, now) EXCEPT !.ms = ms]
        IN  Derivation("withMs", a, fromFields(a, this, now))

\* withTime(hour, minute, second = undefined, ms = undefined): an argument left
\* out (its name is in t[5]) is taken from the receiver by ??.
WithTime ==
    \E t \in {<<12, 30, 0, 0, {"second", "ms"}>>, <<12, 30, 15, 0, {"ms"}>>,
              <<12, 30, 15, 250, {}>>, <<24, 0, 0, 0, {"second", "ms"}>>,
              <<1, 1, 60, 0, {"ms"}>>},
       now \in DerivationClock :
        LET a == [FieldsOf(this, now) EXCEPT
                    !.hour = t[1], !.minute = t[2],
                    !.second = IF "second" \in t[5] THEN this.second ELSE t[3],
                    !.ms = IF "ms" \in t[5] THEN this.ms ELSE t[4],
                    !.omitted = t[5]]
        IN  Derivation("withTime", a, fromFields(a, this, now))

WithTimeZone ==
    \E offset \in {0, -300, 840} :
        Derivation("withTimeZone", [NoArgs EXCEPT !.offset = offset],
                   Returned(NewDateTime(this.timestamp, offset)))

WithTimestamp ==
    \E timestamp \in {Time(0, 0), Time(-719529, 86399999), Time(maxDateDay, 1)} :
        Derivation("withTimestamp", [NoArgs EXCEPT !.timestamp = timestamp],
                   Returned(NewDateTime(timestamp, this.offset)))

\* this.toISOString(): the instance stays at hand; its private m_formatter is
\* set by the getter `formatter`.
ToISOString ==
    /\ pc = "have"
    /\ steps < MaxDerivations
    /\ steps' = steps + 1
    /\ LET r == toISOString(formatters, this)
       IN  /\ formatters' = r.registry
           /\ before' = formatters
           /\ installs' = installs + r.installed
           /\ out' = r.result.str
           /\ ret' = [dt |-> NoDateTime, ok |-> r.result.ok, err |-> r.result.err]
    /\ op' = "toISOString"
    /\ args' = NoArgs
    /\ saved' = this
    /\ prev' = [this EXCEPT !.m_formatter = TRUE]
    /\ this' = [this EXCEPT !.m_formatter = TRUE]
    /\ objects' = [objects EXCEPT !.receiver = objects.this, !.returned = 0]
    /\ UNCHANGED <<pc, formatter>>

Next ==
    \/ FromDateTime
    \/ FromTimestamp
    \/ Now
    \/ Parse
    \/ WithYear
    \/ WithMonth
    \/ WithDay
    \/ WithDate
    \/ WithHour
    \/ WithMinute
    \/ WithSecond
    \/ WithMs
    \/ WithTime
    \/ WithTimeZone
    \/ WithTimestamp
    \/ ToISOString

Spec == SessionInit /\ [][Next]_vars

---------------------------------------------------------------------------
(* The formatter registry of a process, and formatting                     *)

\* Specifiers callers try to register.
CallerSpecifiers == {"Q", "Y"}

FormatStrings ==
    {"", "{Y}-{M}", "{year:2}", "{month:2}", "{weekday:short}", "{Q}", "a{{}b{Q2}c",
     "{constructor}", "x{{}{Q}}y{D}", "no {placeholder"}

\* The DateTimes formatted.
Subjects == {NewDateTime(Time(19782, 45045123), -330), NewDateTime(Time(-1, 0), 0)}

FmtInit ==
    /\ pc = "idle"
    /\ op = ""
    /\ args = NoArgs
    /\ this = NoDateTime /\ prev = NoDateTime /\ saved = NoDateTime
    /\ ret = NoResult
    /\ out = ""
    /\ formatters = EmptyRegistry
    /\ before = EmptyRegistry
    /\ installs = 0
    /\ formatter = NoFormatter
    /\ steps = 0
    /\ objects = NoObjects

\* new DateTimeFormatter(f)
Constructed(f) ==
    /\ op' = "new DateTimeFormatter"
    /\ args' = [NoArgs EXCEPT !.text = f]
    /\ before' = formatters
    /\ formatters' = RegistryAfterConstruction(formatters)
    /\ installs' = IF 0 = Cardinality(DOMAIN formatters)
                   THEN installs + 1 ELSE installs
    /\ formatter' = [some |-> TRUE, m_format |-> f]
    /\ ret' = Completed
    /\ UNCHANGED <<pc, this, prev, saved, out, steps, objects>>

Construct == \E f \in FormatStrings : Constructed(f)

\* DateTimeFormatter.addFormatter(specifier, fn)
AddFormatter ==
    \E specifier \in CallerSpecifiers, fn \in CallerFormatters :
        /\ op' = "addFormatter"
        /\ args' = [NoArgs EXCEPT !.specifier = specifier, !.fn = fn]
        /\ before' = formatters
        /\ IF addFormatterThrows(formatters, specifier)
           THEN /\ ret' = Thrown("Format specifier " \o specifier
                                    \o " is already taken.")
                /\ formatters' = formatters
           ELSE /\ ret' = Completed
                /\ formatters' = RegistryWith(formatters, specifier, fn)
        /\ UNCHANGED <<pc, this, prev, saved, out, installs, formatter, steps, objects>>

\* formatter.formatString = f
SetFormatString ==
    \E f \in FormatStrings :
        /\ formatter.some
        /\ op' = "formatString="
        /\ args' = [NoArgs EXCEPT !.text = f]
        /\ formatter' = [formatter EXCEPT !.m_format = f]
        /\ before' = formatters
        /\ ret' = Completed
        /\ UNCHANGED <<pc, this, prev, saved, out, formatters, installs, steps,
                       objects>>

\* formatter.format(dateTime); the DateTime formatted is kept in this.
Formats(dateTime) ==
    /\ formatter.some
    /\ op' = "format"
    /\ args' = [NoArgs EXCEPT !.text = formatter.m_format]
    /\ this' = dateTime
    /\ before' = formatters
    /\ LET r == format(formatters, formatter.m_format, dateTime)
       IN  /\ out' = r.str
           /\ ret' = [dt |-> NoDateTime, ok |-> r.ok, err |-> r.err]
    /\ UNCHANGED <<pc, prev, saved, formatters, installs, formatter, steps, objects>>

Format == \E dateTime \in Subjects : Formats(dateTime)

FmtNext == Construct \/ AddFormatter \/ SetFormatString \/ Format

SpecFmt == FmtInit /\ [][FmtNext]_vars

---------------------------------------------------------------------------
(* Rendering: an instance made from fields is formatted with one built-in   *)
(* placeholder, and asked for its ISO 8601 string                          *)

RenderYears == {0, 7, 99, 100, 999, 1000, 1970, 2024, 9999, 10000, 12345, 275759}

RenderDays == {<<1, 1>>, <<2, 28>>, <<9, 10>>, <<10, 9>>, <<12, 31>>}

RenderOffsets == {0, -1, 1, -59, 60, -330, 330, -600, -720, 840}

\* Every year, every day, every time and every offset of interest, the other
\* fields fixed.
RenderFields ==
    {Fields(y, 1, 1, 0, 0, 0, 0, 0, Time(20393, 0)) : y \in RenderYears}
    \cup {Fields(1970, d[1], d[2], 12, 30, 7, 700, off, Time(20393, 0)) :
            d \in RenderDays, off \in {0, -330}}
    \cup {Fields(2024, 2, 29, h, mi, sec, ms, 0, Time(20393, 0)) :
            h \in {0, 9, 23}, mi \in {0, 5, 59}, sec \in {0, 7, 59}, ms \in {0, 999}}
    \cup {Fields(2024, 12, 31, 23, 59, 59, 999, off, Time(20393, 0)) :
            off \in RenderOffsets}

RenderTemplates ==
    {"{ms}", "{Y}", "{y}", "{M}", "{D}", "{h}", "{m}", "{s}", "{{}", "{Z}", "{z}"}

RenderFromDateTime ==
    \E a \in RenderFields :
        Factory("fromDateTime", a,
                fromDateTime(a.year, a.month, a.day, a.hour, a.minute, a.second,
                             a.ms, a.offset, a.now))

RenderConstruct == \E f \in RenderTemplates : Constructed(f)

RenderFormat == pc = "have" /\ Formats(this)

RenderNext == RenderFromDateTime \/ RenderConstruct \/ RenderFormat \/ ToISOString

SpecRender == SessionInit /\ [][RenderNext]_vars

---------------------------------------------------------------------------
(* The year formatter: the function is given a DateTime and an argument    *)
(* string                                                                  *)

\* The argument strings tried are the numerals of 0..MaxYearDigits.
MaxYearDigits == 8

YearSubjects ==
    {NewDateTime(Time(DayFromYear(y), 0), 0) :
        y \in {0, 7, 99, 100, 999, 1000, 2024, 9999, 10000, 12345, 275759}}
    \cup {NewDateTime(Time(-719529, 86399999), 0), NewDateTime(Time(maxDateDay, 1), 0)}

YearInputs ==
    {[NoArgs EXCEPT !.text = NumStr(n)] : n \in 0..MaxYearDigits}
    \cup {[NoArgs EXCEPT !.omitted = {"args"}]}

\* The second argument of a component formatter: undefined when there is none.
InputArgs(a) == IF "args" \in a.omitted THEN Undefined ELSE <<a.text>>

YearInit ==
    /\ pc = "input"
    /\ op = "year"
    /\ args \in YearInputs
    /\ this \in YearSubjects
    /\ prev = NoDateTime /\ saved = NoDateTime
    /\ ret = NoResult
    /\ out = ""
    /\ formatters = EmptyRegistry
    /\ before = EmptyRegistry
    /\ installs = 0
    /\ formatter = NoFormatter
    /\ steps = 0
    /\ objects = NoObjects

\* formatters["year"](dateTime, args)
CallYearFormatter ==
    /\ pc = "input"
    /\ pc' = "done"
    /\ out' = CallFormatter(InternalRegistry, Lookup(InternalRegistry, "year"), this,
                            InputArgs(args))
    /\ ret' = Completed
    /\ UNCHANGED <<op, args, this, prev, saved, formatters, before, installs,
                   formatter, steps, objects>>

\* new DateTimeFormatter("{year}").format(dateTime)
FormatYear ==
    /\ pc = "input" /\ "args" \in args.omitted
    /\ pc' = "done"
    /\ op' = "format"
    /\ before' = formatters
    /\ formatters' = RegistryAfterConstruction(formatters)
    /\ installs' = IF 0 = Cardinality(DOMAIN formatters)
                   THEN installs + 1 ELSE installs
    /\ formatter' = [some |-> TRUE, m_format |-> "{year}"]
    /\ LET r == format(RegistryAfterConstruction(formatters), "{year}", this)
       IN  /\ out' = r.str
           /\ ret' = [dt |-> NoDateTime, ok |-> r.ok, err |-> r.err]
    /\ UNCHANGED <<args, this, prev, saved, steps, objects>>

YearNext == CallYearFormatter \/ FormatYear

SpecYear == YearInit /\ [][YearNext]_vars

---------------------------------------------------------------------------
(* What the claims speak of                                                *)

\* Length of a month as the calendar has it.
MonthLength(month, year) ==
    IF month \in {1, 3, 5, 7, 8, 10, 12} THEN 31
    ELSE IF month \in {4, 6, 9, 11} THEN 30
    ELSE IF year % 4 = 0 /\ (year % 100 # 0 \/ year % 400 = 0) THEN 29
    ELSE 28

FieldNames == <<"year", "month", "day", "hour", "minute", "second", "ms">>

FieldValue(a, i) ==
    CASE i = 1 -> a.year [] i = 2 -> a.month [] i = 3 -> a.day [] i = 4 -> a.hour
      [] i = 5 -> a.minute [] i = 6 -> a.second [] i = 7 -> a.ms

FieldInvalid(a, i) ==
    CASE i = 1 -> a.year < 0
      [] i = 2 -> a.month \notin 1..12
      [] i = 3 -> a.day \notin 1..MonthLength(a.month, a.year)
      [] i = 4 -> a.hour \notin 0..23
      [] i = 5 -> a.minute \notin 0..59
      [] i = 6 -> a.second \notin 0..59
      [] i = 7 -> a.ms \notin 0..999

ValidTuple(a) == \A i \in 1..7 : ~FieldInvalid(a, i)

FirstInvalid(a) ==
    CHOOSE i \in 1..7 : FieldInvalid(a, i) /\ \A j \in 1..(i - 1) : ~FieldInvalid(a, j)

FieldMessage(a) ==
    "Expected valid " \o FieldNames[FirstInvalid(a)] \o ", found "
        \o ToString(FieldValue(a, FirstInvalid(a))) \o "."

SameFields(dt, a) ==
    /\ ~dt.nan
    /\ dt.year = a.year /\ dt.month = a.month /\ dt.day = a.day
    /\ dt.hour = a.hour /\ dt.minute = a.minute /\ dt.second = a.second
    /\ dt.ms = a.ms

\* Days from 1970-01-01 to a civil date, by eras of 400 years and a year
\* starting in March.
DaysFromCivil(y, m, d) ==
    LET yy  == IF m <= 2 THEN y - 1 ELSE y
        era == yy \div 400
        yoe == yy - era * 400
        mp  == IF m > 2 THEN m - 3 ELSE m + 9
        doy == ((153 * mp + 2) \div 5) + d - 1
        doe == yoe * 365 + (yoe \div 4) - (yoe \div 100) + doy
    IN  era * 146097 + doe - 719468

\* UTC epoch milliseconds of the fields of a, less the offset.
EpochOfFields(a) ==
    AddMs(Time(DaysFromCivil(a.year, a.month, a.day),
               a.hour * 3600000 + a.minute * 60000 + a.second * 1000 + a.ms),
          -(a.offset * 60000))

CalledFromDateTime == pc = "done" /\ op = "fromDateTime"

\* C1: for every valid field tuple (year >= 0) with the UTC timezone,
\* fromDateTime succeeds and the getters of the instance return the inputs.
C1_FieldsRoundTrip ==
    (CalledFromDateTime /\ ValidTuple(args) /\ args.offset = utcOffset)
        => (ret.ok /\ SameFields(ret.dt, args))

\* C2: for every tuple with an invalid field, fromDateTime throws the error that
\* names the first invalid field, in the order year, month, day, hour, minute,
\* second, ms, and its value, and produces no DateTime.
C2_FirstInvalidFieldReported ==
    (CalledFromDateTime /\ ~ValidTuple(args))
        => (~ret.ok /\ ret.err = FieldMessage(args) /\ this = NoDateTime)

C2_Witness ==
    /\ CalledFromDateTime
    /\ args.year = 1970 /\ args.month = 2 /\ args.day = 32 /\ args.hour = 24
    /\ args.minute = -1 /\ args.second = 60 /\ args.ms = 1000
    /\ ret.err = "Expected valid day, found 32."

\* C3: for a valid year and month, fromDateTime rejects the day exactly when it
\* is outside 1..L, L the length of the month in that year; with the other
\* fields valid it accepts the day exactly when it is inside.  So 31 April,
\* June, September, November are rejected, 29 February is rejected in 1971 and
\* 1900 and accepted in 1972 and 2000.
C3_DayAcceptedIffInMonth ==
    (CalledFromDateTime /\ args.year >= 0 /\ args.month \in 1..12)
        => LET L == MonthLength(args.month, args.year)
               dayError == "Expected valid day, found " \o ToString(args.day) \o "."
           IN  /\ (ret.err = dayError) <=> (args.day \notin 1..L)
               /\ (args.hour \in 0..23 /\ args.minute \in 0..59
                     /\ args.second \in 0..59 /\ args.ms \in 0..999)
                    => (ret.ok <=> args.day \in 1..L)
               /\ (args.day = 31 /\ args.month \in {4, 6, 9, 11}) => ~ret.ok
               /\ (args.day = 29 /\ args.month = 2 /\ args.year \in {1971, 1900})
                    => ~ret.ok
               /\ (args.day = 29 /\ args.month = 2 /\ args.year \in {1972, 2000}
                     /\ args.hour = 0 /\ args.minute = 0 /\ args.second = 0
                     /\ args.ms = 0)
                    => ret.ok

C3_Witness ==
    /\ CalledFromDateTime
    /\ args.year = 1900 /\ args.month = 2 /\ args.day = 29
    /\ ret.err = "Expected valid day, found 29."

\* C4: for valid fields and a timezone of offset o minutes, the timestamp stored
\* is the UTC epoch milliseconds of the fields less o * 60 * 1000; the epoch
\* fields give 0 under UTC and 18000000 under the offset -300.
C4_TimestampIsLocalTime ==
    (CalledFromDateTime /\ ValidTuple(args))
        => /\ ret.ok
           /\ ret.dt.timestamp = EpochOfFields(args)
           /\ ret.dt.offset = args.offset

CalledParse == pc = "done" /\ op = "parse"

\* The shape of a text: every decimal digit replaced by a 9.
RECURSIVE ShapeOf(_)
ShapeOf(s) ==
    IF Len(s) = 0 THEN ""
    ELSE (IF Ch(s, 1) \in Digits THEN "9" ELSE Ch(s, 1)) \o ShapeOf(From(s, 2))

\* YYYY-MM-DDTHH:MM:SS, optional fraction of three digits, offset with optional
\* sign and optional colon.
Iso8601Shapes ==
    {"9999-99-99T99:99:99" \o frac \o sign \o "99" \o colon \o "99" :
        frac \in {"", ".999"}, sign \in {"", "+", "-"}, colon \in {"", ":"}}

ShapeMessage(text) == "Expected valid ISO8601 date-time, found \"" \o text \o "\"."

DecimalDigit(c) == CHOOSE k \in 0..9 : Ch("0123456789", k + 1) = c

\* The number written by the n digits of s from position i on.
RECURSIVE DecimalAt(_, _, _)
DecimalAt(s, i, n) ==
    IF n = 0 THEN 0
    ELSE 10 * DecimalAt(s, i, n - 1) + DecimalDigit(Ch(s, i + n - 1))

\* The calendar fields written in a text of one of the shapes.
WrittenFields(text) ==
    [NoArgs EXCEPT !.year = DecimalAt(text, 1, 4), !.month = DecimalAt(text, 6, 2),
                   !.day = DecimalAt(text, 9, 2), !.hour = DecimalAt(text, 12, 2),
                   !.minute = DecimalAt(text, 15, 2),
                   !.second = DecimalAt(text, 18, 2),
                   !.ms = IF Len(text) > 20 /\ Ch(text, 20) = "."
                          THEN DecimalAt(text, 21, 3) ELSE 0]

\* Texts with the error the tests and the specification expect of them.
ExpectedParseErrors ==
    {<<"197-01-01T00:00:00+00:00",
       "Expected valid ISO8601 date-time, found \"197-01-01T00:00:00+00:00\".">>,
     <<"1970-01-01TO0:00:00+00:00",
       "Expected valid ISO8601 date-time, found \"1970-01-01TO0:00:00+00:00\".">>,
     <<"1970-01-01T00:00:00",
       "Expected valid ISO8601 date-time, found \"1970-01-01T00:00:00\".">>,
     <<"1970-01-01T00:00:00.00+00:00",
       "Expected valid ISO8601 date-time, found \"1970-01-01T00:00:00.00+00:00\".">>,
     <<"1970-13-1T00:00:00+00:00",
       "Expected valid ISO8601 date-time, found \"1970-13-1T00:00:00+00:00\".">>,
     <<"1970-01-32T25:00:00",
       "Expected valid ISO8601 date-time, found \"1970-01-32T25:00:00\".">>,
     <<"1970-13-01T00:00:00+00:00", "Expected valid month, found 13.">>,
     <<"1970-01-32T00:00:00+00:00", "Expected valid day, found 32.">>,
     <<"1970-01-01T25:00:00+00:00", "Expected valid hour, found 25.">>,
     <<"1970-01-01T00:60:00+00:00", "Expected valid minute, found 60.">>,
     <<"1970-01-01T00:00:60+00:00", "Expected valid second, found 60.">>,
     <<"1970-13-32T25:60:60+00:00", "Expected valid month, found 13.">>,
     <<"1970-01-01T00:00:00+00:00", "">>,
     <<"1970-01-01T00:00:000000", "">>,
     <<"2024-02-29T23:59:59.999+00:00", "">>}

\* C6: parse throws the ISO8601 error carrying the whole input exactly when the
\* text is not of the fixed shape, also when the text has an out-of-range value
\* besides; a text of the shape with an out-of-range value gets the error of
\* fromDateTime for the first invalid field, and otherwise parse succeeds.
C6_ShapeErrorIffNotShaped ==
    CalledParse
        => /\ (ret.err = ShapeMessage(args.text))
                <=> (ShapeOf(args.text) \notin Iso8601Shapes)
           /\ (ShapeOf(args.text) \in Iso8601Shapes)
                => IF ValidTuple(WrittenFields(args.text))
                   THEN ret.ok /\ SameFields(ret.dt, WrittenFields(args.text))
                   ELSE ~ret.ok /\ ret.err = FieldMessage(WrittenFields(args.text))
           /\ \A e \in ExpectedParseErrors : (args.text = e[1]) => (ret.err = e[2])

C6_Witness ==
    /\ CalledParse
    /\ args.text = "1970-13-1T00:00:00+00:00"
    /\ ret.err = "Expected valid ISO8601 date-time, found \"1970-13-1T00:00:00+00:00\"."

\* The calendar fields of an instance, as its getters return them.
InstanceFields(dt) ==
    Fields(dt.year, dt.month, dt.day, dt.hour, dt.minute, dt.second, dt.ms,
           dt.offset, NaNTime)

\* C5: every instance a factory or a derivation gives is a valid calendar
\* date-time: its own fields would pass the validation of fromDateTime.
C5_InstancesAreValid ==
    (pc = "have") => (~this.nan /\ ValidTuple(InstanceFields(this)))

\* C7: for dt made by fromDateTime from valid fields with ms = 0 under UTC,
\* parse(dt.toISOString()) succeeds and has the timestamp of dt.
C7_ParseRoundTrip ==
    (pc = "done" /\ op = "parseBack" /\ ValidTuple(args) /\ args.ms = 0
        /\ args.offset = utcOffset)
        => (ret.ok /\ ret.dt.timestamp = this.timestamp)

InternalsInstalled ==
    \A n \in BuiltinSpecifiers :
        n \in DOMAIN formatters /\ formatters[n] = <<"internal", n>>

\* C8: with the built-ins installed, formatting "{year:2}", "{month:2}" or
\* "{weekday:short}" looks up year, month or weekday and calls it with the
\* args "2", "2" or "short"; it does not fail.
C8_ArgsReachComponentFormatter ==
    (op = "format" /\ InternalsInstalled
        /\ args.text \in {"{year:2}", "{month:2}", "{weekday:short}"})
        => /\ ret.ok
           /\ out = CASE args.text = "{year:2}" -> InternalFormatter("year", this, <<"2">>)
                      [] args.text = "{month:2}" -> InternalFormatter("month", this, <<"2">>)
                      [] args.text = "{weekday:short}" ->
                            InternalFormatter("weekday", this, <<"short">>)

\* C9: once a DateTimeFormatter has been constructed, every built-in specifier
\* is in the registry, whatever addFormatter calls came before, and the
\* built-in set has been installed exactly once.
C9_BuiltinsPresentOnceConstructed ==
    formatter.some => (BuiltinSpecifiers \subseteq DOMAIN formatters /\ installs = 1)

\* C10: addFormatter throws "Format specifier <name> is already taken." whenever
\* the name is a built-in specifier or was added by an earlier addFormatter,
\* also before the first formatter is constructed, and then leaves the registry
\* as it was.
C10_TakenSpecifierRejected ==
    (op = "addFormatter"
        /\ (args.specifier \in BuiltinSpecifiers \/ args.specifier \in DOMAIN before))
        => /\ ~ret.ok
           /\ ret.err = "Format specifier " \o args.specifier \o " is already taken."
           /\ formatters = before

\* The templates as the documentation reads them: literal text and
\* placeholders {specifier} or {specifier:args}, in order.
Text(t) == [args |-> Undefined, specifier |-> "", text |-> t, kind |-> "text"]

Placeholder(specifier, fargs) ==
    [args |-> fargs, specifier |-> specifier, text |-> "", kind |-> "placeholder"]

TemplateChunks(template) ==
    CASE template = "" -> <<>>
      [] template = "{Y}-{M}" ->
            <<Placeholder("Y", Undefined), Text("-"), Placeholder("M", Undefined)>>
      [] template = "{year:2}" -> <<Placeholder("year", <<"2">>)>>
      [] template = "{month:2}" -> <<Placeholder("month", <<"2">>)>>
      [] template = "{weekday:short}" -> <<Placeholder("weekday", <<"short">>)>>
      [] template = "{Q}" -> <<Placeholder("Q", Undefined)>>
      [] template = "a{{}b{Q2}c" ->
            <<Text("a"), Placeholder("{", Undefined), Text("b"),
              Placeholder("Q2", Undefined), Text("c")>>
      [] template = "{constructor}" -> <<Placeholder("constructor", Undefined)>>
      [] template = "x{{}{Q}}y{D}" ->
            <<Text("x"), Placeholder("{", Undefined), Placeholder("Q", Undefined),
              Text("}y"), Placeholder("D", Undefined)>>
      [] template = "no {placeholder" -> <<Text("no {placeholder")>>

\* The names addFormatter has added, and the names registered in all.
AddedSpecifiers == {n \in DOMAIN formatters : formatters[n][1] = "caller"}

RegisteredSpecifiers == BuiltinSpecifiers \cup AddedSpecifiers

\* Positions of the placeholders of a template whose specifier is not registered.
UnregisteredAt(template) ==
    {i \in DOMAIN TemplateChunks(template) :
        /\ TemplateChunks(template)[i].kind = "placeholder"
        /\ TemplateChunks(template)[i].specifier \notin RegisteredSpecifiers}

FirstUnregistered(template) ==
    TemplateChunks(template)[
        CHOOSE i \in UnregisteredAt(template) :
            \A j \in UnregisteredAt(template) : i <= j].specifier

\* C11: with the built-ins installed, format throws "Undefined component
\* formatter '<name>'." whenever the template has a placeholder whose
\* specifier is neither a built-in nor a name added by addFormatter, such as
\* "constructor", and then returns no string.
C11_UnregisteredSpecifierThrows ==
    (op = "format" /\ InternalsInstalled /\ UnregisteredAt(args.text) # {})
        => /\ ~ret.ok
           /\ ret.err = "Undefined component formatter '"
                            \o FirstUnregistered(args.text) \o "'."
           /\ out = ""

\* What the functions callers register give for a DateTime.
QuarterOf(dt) ==
    CASE dt.month \in 1..3 -> "Q1" [] dt.month \in 4..6 -> "Q2"
      [] dt.month \in 7..9 -> "Q3" [] dt.month \in 10..12 -> "Q4"

ExpectedOfCaller(fn, dt) == IF fn = "brace" THEN "{Y}" ELSE QuarterOf(dt)

\* C12: a successful addFormatter(name, fn) registers fn under name; from then
\* on the formatter at hand, constructed before or after, renders {name} as
\* what fn gives for the DateTime formatted; adding the name again throws and
\* leaves the registry as it was, and no later call takes fn away.
C12_AddedFormatterRenders ==
    /\ (op = "addFormatter" /\ ret.ok)
            => (args.specifier \in DOMAIN formatters
                    /\ formatters[args.specifier] = <<"caller", args.fn>>)
    /\ (op = "addFormatter" /\ args.specifier \in DOMAIN before
            /\ before[args.specifier][1] = "caller")
            => (~ret.ok /\ formatters = before)
    /\ \A n \in DOMAIN before :
            before[n][1] = "caller" => (n \in DOMAIN formatters /\ formatters[n] = before[n])
    /\ (op = "format" /\ args.text = "{Q}" /\ "Q" \in AddedSpecifiers)
            => (ret.ok /\ out = ExpectedOfCaller(formatters["Q"][2], this))

C12_Witness ==
    /\ op = "format" /\ args.text = "{Q}" /\ ret.ok /\ out = "Q1"
    /\ "Q" \in DOMAIN formatters /\ formatters["Q"] = <<"caller", "quarter">>
    /\ installs = 1

CalendarDerivations ==
    {"withYear", "withMonth", "withDay", "withDate", "withHour", "withMinute",
     "withSecond", "withMs", "withTime"}

WithDerivations == CalendarDerivations \cup {"withTimeZone", "withTimestamp"}

\* What the public getters of two DateTimes return is the same.
SameGetters(d, e) ==
    /\ d.timestamp = e.timestamp /\ d.offset = e.offset
    /\ d.year = e.year /\ d.month = e.month /\ d.day = e.day
    /\ d.weekday = e.weekday /\ d.hour = e.hour /\ d.minute = e.minute
    /\ d.second = e.second /\ d.ms = e.ms

\* C13: after a with-derivation, returning or throwing, and after toISOString,
\* the getters of the receiver return what they returned before the call; a
\* derivation that returns gives an object other than its receiver.
C13_ReceiverUnchanged ==
    (pc = "have" /\ op \in WithDerivations \cup {"toISOString"})
        => /\ SameGetters(prev, saved)
           /\ objects.receiver # 0
           /\ (op \in WithDerivations /\ ret.ok)
                => (objects.returned # 0 /\ objects.returned # objects.receiver)

C13_Witness ==
    /\ pc = "have" /\ op = "withTimeZone" /\ ret.ok
    /\ args.offset = saved.offset
    /\ SameGetters(ret.dt, saved)
    /\ objects.receiver = 1 /\ objects.returned = 2

\* The fields a calendar derivation takes from its arguments; withTime takes
\* second and ms from them only when they are supplied.
ChangedFields(name, a) ==
    CASE name = "withYear" -> {"year"}
      [] name = "withMonth" -> {"month"}
      [] name = "withDay" -> {"day"}
      [] name = "withDate" -> {"year", "month", "day"}
      [] name = "withHour" -> {"hour"}
      [] name = "withMinute" -> {"minute"}
      [] name = "withSecond" -> {"second"}
      [] name = "withMs" -> {"ms"}
      [] name = "withTime" -> {"hour", "minute", "second", "ms"} \ a.omitted

\* The fields of dt that the derivation did not name are those of d.
OtherFieldsKept(dt, d, changed) ==
    /\ "year" \notin changed => dt.year = d.year
    /\ "month" \notin changed => dt.month = d.month
    /\ "day" \notin changed => dt.day = d.day
    /\ "hour" \notin changed => dt.hour = d.hour
    /\ "minute" \notin changed => dt.minute = d.minute
    /\ "second" \notin changed => dt.second = d.second
    /\ "ms" \notin changed => dt.ms = d.ms

\* C14: a calendar derivation on a valid receiver throws the error of
\* fromDateTime for the first invalid field of the combined date (the day, for
\* withMonth(2) or withMonth(4) on a day 31 and for withYear(1971) on 29
\* February); otherwise it returns an instance with the receiver's timezone
\* whose fields are the arguments where named and the receiver's elsewhere.
C14_DerivationIsFromDateTime ==
    (pc = "have" /\ op \in CalendarDerivations /\ ~saved.nan
        /\ ValidTuple(InstanceFields(saved)))
        => /\ OtherFieldsKept(args, saved, ChangedFields(op, args))
           /\ IF ValidTuple(args)
              THEN /\ ret.ok
                   /\ ret.dt.offset = saved.offset
                   /\ SameFields(ret.dt, args)
              ELSE /\ ~ret.ok
                   /\ ret.err = FieldMessage(args)
           /\ (op = "withMonth" /\ args.month \in {2, 4} /\ saved.day = 31)
                => ret.err = "Expected valid day, found 31."
           /\ (op = "withYear" /\ args.year = 1971 /\ saved.month = 2
                    /\ saved.day = 29)
                => ret.err = "Expected valid day, found 29."

\* C15: fromTimestamp never fails and returns an instance with the timestamp and
\* the timezone it was given, UTC when none was given; now returns an instance
\* with the clock reading and the timezone given, UTC when none was given;
\* withTimeZone keeps the receiver's timestamp and takes the timezone given;
\* withTimestamp takes the timestamp given and keeps the receiver's timezone.
C15_TimestampStoredAsGiven ==
    /\ op = "fromTimestamp"
         => /\ ret.ok
            /\ ret.dt.timestamp = args.timestamp
            /\ ret.dt.offset = (IF args.omitted = {} THEN args.offset ELSE 0)
    /\ op = "now"
         => /\ ret.ok
            /\ ret.dt.timestamp = args.now
            /\ ret.dt.offset = (IF args.omitted = {} THEN args.offset ELSE 0)
    /\ op = "withTimeZone"
         => /\ ret.ok
            /\ ret.dt.timestamp = saved.timestamp
            /\ ret.dt.offset = args.offset
    /\ op = "withTimestamp"
         => /\ ret.ok
            /\ ret.dt.timestamp = args.timestamp
            /\ ret.dt.offset = saved.offset

\* fromTimestamp was given a timestamp beyond the range of Date and no
\* timezone, and the instance it returned was given another timestamp.
C15_Witness ==
    /\ pc = "have" /\ op = "withTimestamp" /\ ret.ok
    /\ saved.nan /\ ~saved.timestamp.nan /\ saved.offset = 0
    /\ saved.timestamp = Time(-maxDateDay - 1, 86399999)
    /\ ret.dt.timestamp = Time(0, 0) /\ ret.dt.year = 1970

\* The numeral of a digit, and the decimal numerals of a natural number: as
\* many digits as it has, and exactly w digits.
Numeral(d) == SubSeq("0123456789", d + 1, d + 1)

RECURSIVE Decimal(_)
Decimal(n) == IF n < 10 THEN Numeral(n) ELSE Decimal(n \div 10) \o Numeral(n % 10)

RECURSIVE FixedWidth(_, _)
FixedWidth(n, w) ==
    IF w = 0 THEN "" ELSE FixedWidth(n \div 10, w - 1) \o Numeral(n % 10)

\* The offset o as sign, hours, separator, minutes.
OffsetText(o, separator) ==
    LET size == IF o < 0 THEN 0 - o ELSE o
    IN  (IF o < 0 THEN "-" ELSE "+") \o FixedWidth(size \div 60, 2) \o separator
            \o FixedWidth(size % 60, 2)

\* C16: {ms} renders the second of the DateTime with as many digits as it has,
\* whatever its ms; toISOString gives date, time, '.', the second once more
\* and the offset, the ms of the instance appearing nowhere.
C16_MsRendersSecond ==
    /\ (op = "format" /\ args.text = "{ms}")
         => (ret.ok /\ out = Decimal(this.second))
    /\ op = "toISOString"
         => /\ ret.ok
            /\ out = FixedWidth(saved.year, 4) \o "-" \o FixedWidth(saved.month, 2)
                        \o "-" \o FixedWidth(saved.day, 2)
                        \o "T" \o FixedWidth(saved.hour, 2)
                        \o ":" \o FixedWidth(saved.minute, 2)
                        \o ":" \o FixedWidth(saved.second, 2)
                        \o "." \o Decimal(saved.second)
                        \o OffsetText(saved.offset, ":")

\* The ISO string of 12:30:07.700 was asked for a second time, and has ":07.7"
\* before the offset.
C16_Witness ==
    /\ op = "toISOString" /\ ret.ok
    /\ saved.second = 7 /\ saved.ms = 700
    /\ out = "1970-01-01T12:30:07.7+00:00"
    /\ formatter.some /\ formatter.m_format = "{ms}"
    /\ steps = 2

\* What a bare built-in placeholder is claimed to give for the DateTime dt.
BareRendering(template, dt) ==
    CASE template = "{Y}" -> FixedWidth(dt.year % 10000, 4)
      [] template = "{y}" -> FixedWidth(dt.year % 100, 2)
      [] template = "{M}" -> FixedWidth(dt.month, 2)
      [] template = "{D}" -> FixedWidth(dt.day, 2)
      [] template = "{h}" -> FixedWidth(dt.hour, 2)
      [] template = "{m}" -> FixedWidth(dt.minute, 2)
      [] template = "{s}" -> FixedWidth(dt.second, 2)
      [] template = "{{}" -> "{"

BareTemplates == {"{Y}", "{y}", "{M}", "{D}", "{h}", "{m}", "{s}", "{{}"}

\* C17: for a DateTime of a year from 0 on, {Y} gives the year mod 10000 in
\* exactly 4 digits, {y} the year mod 100 in exactly 2, {M}, {D}, {h}, {m} and
\* {s} the month, day, hour, minute and second in exactly 2, and {{} gives "{".
C17_BarePlaceholdersFixedWidth ==
    (op = "format" /\ args.text \in BareTemplates /\ ~this.nan /\ this.year >= 0)
        => /\ ret.ok
           /\ out = BareRendering(args.text, this)
           /\ Len(out) = (CASE args.text = "{Y}" -> 4
                            [] args.text = "{{}" -> 1
                            [] OTHER -> 2)

\* The year 12345 was rendered with {Y} as "2345".
C17_Witness ==
    /\ op = "format" /\ ret.ok /\ args.text = "{Y}"
    /\ this.year = 12345 /\ out = "2345"

\* C18: {Z} gives the sign, the hours of the offset in 2 digits, ':' and its
\* minutes in 2 digits, {z} the same without the ':'; the sign is '-' for an
\* offset below 0 and '+' otherwise: "+00:00" and "+0000" for the offset 0,
\* "-05:30" and "-0530" for -330.
C18_OffsetRendering ==
    /\ (op = "format" /\ args.text = "{Z}")
         => /\ ret.ok
            /\ out = OffsetText(this.offset, ":")
            /\ this.offset = 0 => out = "+00:00"
            /\ this.offset = -330 => out = "-05:30"
    /\ (op = "format" /\ args.text = "{z}")
         => /\ ret.ok
            /\ out = OffsetText(this.offset, "")
            /\ this.offset = 0 => out = "+0000"
            /\ this.offset = -330 => out = "-0530"

\* The offset -330 was rendered with {z}.
C18_Witness ==
    /\ op = "format" /\ ret.ok /\ args.text = "{z}"
    /\ this.offset = -330 /\ out = "-0530"

\* C19: no step takes a specifier out of the registry or maps it to another
\* function: neither a construction nor an addFormatter, returning or throwing,
\* before or after the first construction.
C19_RegistryAppendOnly ==
    [][\A n \in DOMAIN formatters :
            n \in DOMAIN formatters' /\ formatters'[n] = formatters[n]]_vars

\* "Y" was added before any formatter was constructed, a formatter was then
\* constructed, and an addFormatter of another function for "Y" has thrown.
C19_Witness ==
    /\ op = "addFormatter" /\ ~ret.ok
    /\ args.specifier = "Y" /\ args.fn = "quarter"
    /\ "Y" \in DOMAIN formatters /\ formatters["Y"] = <<"caller", "brace">>
    /\ "Q" \in DOMAIN formatters
    /\ formatter.some

\* The placeholders of the template carry no arguments and every specifier is
\* a key of the registry.
Resolves(template) ==
    \A i \in DOMAIN TemplateChunks(template) :
        TemplateChunks(template)[i].kind = "placeholder"
            => /\ TemplateChunks(template)[i].specifier \in DOMAIN formatters
               /\ TemplateChunks(template)[i].args = Undefined

\* What the function registered under a specifier gives for dt.
ExpectedOfSpecifier(specifier, dt) ==
    IF formatters[specifier][1] = "caller"
    THEN ExpectedOfCaller(formatters[specifier][2], dt)
    ELSE BareRendering("{" \o specifier \o "}", dt)

\* The chunks in order: a text as it is, a placeholder as what its function
\* gives.
RECURSIVE Concatenated(_, _)
Concatenated(chunks, dt) ==
    IF chunks = <<>> THEN ""
    ELSE (IF Head(chunks).kind = "text" THEN Head(chunks).text
          ELSE ExpectedOfSpecifier(Head(chunks).specifier, dt))
            \o Concatenated(Tail(chunks), dt)

\* C20: every call of format ends, with a string or an error; when every
\* placeholder of the template resolves, the string is the texts and the
\* results of the component formatters in the order of the template; a
\* template without a placeholder comes back as it is; a result "{Y}" of a
\* component formatter stays "{Y}"; the format string of the formatter is
\* after the call what it was.
C20_FormatConcatenatesInOrder ==
    op = "format"
        => /\ ret.ok \/ ret.err # ""
           /\ Resolves(args.text)
                => (ret.ok /\ out = Concatenated(TemplateChunks(args.text), this))
           /\ (\A i \in DOMAIN TemplateChunks(args.text) :
                    TemplateChunks(args.text)[i].kind = "text")
                => (ret.ok /\ out = args.text)
           /\ (args.text = "{Q}" /\ "Q" \in DOMAIN formatters
                    /\ formatters["Q"] = <<"caller", "brace">>)
                => (ret.ok /\ out = "{Y}")
           /\ formatter.m_format = args.text

\* With "Q" registered to a function that returns "{Y}" and the built-ins
\* installed, x{{}{Q}}y{D} was rendered for 1969-12-31.
C20_Witness ==
    /\ op = "format" /\ ret.ok
    /\ args.text = "x{{}{Q}}y{D}"
    /\ "Q" \in DOMAIN formatters /\ formatters["Q"] = <<"caller", "brace">>
    /\ this.year = 1969
    /\ out = "x{{Y}}y31"

\* The number of digits asked of the year formatter: 4 when it is given no
\* argument.
DigitsAsked(a) ==
    IF "args" \in a.omitted THEN 4
    ELSE CHOOSE n \in 0..(MaxYearDigits + 1) : Decimal(n) = a.text

\* C21: the year formatter given the numeral of n, or nothing for n = 4, gives
\* exactly n characters: for a year from 0 on, the last n digits of the year
\* padded with zeros to n digits ("24" for 2024 and n = 2).
C21_YearHasExactlyNCharacters ==
    pc = "done"
        => /\ ret.ok
           /\ Len(out) = DigitsAsked(args)
           /\ (~this.nan /\ this.year >= 0)
                => out = FixedWidth(this.year, DigitsAsked(args))

\* The year 2024 was formatted with the argument "2".
C21_Witness ==
    /\ pc = "done" /\ op = "year"
    /\ this.year = 2024 /\ args.text = "2" /\ args.omitted = {}
    /\ out = "24"

====
